---- MODULE Spec2Model ----
(***************************************************************************)
(* Model of lib/workers/global/CustomDashboardWriter.ts: the self-hosted   *)
(* dependency-dashboard writer.  The module state (repository, http,       *)
(* issueListCache, renovateConfig), the four operations (ensureIssue,      *)
(* ensureIssueClosing, getIssue, findIssue) and init are modelled together *)
(* with the remote tracker that answers the HTTP requests.  Each           *)
(* asynchronous operation is cut at its awaits: one action per awaited     *)
(* request, taken at the moment the tracker answers it, so that two        *)
(* invocations interleave exactly where cooperative scheduling lets them.  *)
(***************************************************************************)
EXTENDS Integers, Sequences, FiniteSets, TLC

\* ---------------------------------------------------------------- bounds
\* Longest issue list the tracker holds before any invocation starts, when
\* two invocations interleave (Spec) and when one runs by itself (SpecOne).
MaxInit == 1

MaxInitOne == 3

\* The client tasks, each running one invocation of one operation; they are
\* interchangeable, so they are numbered in the order in which they start.
Procs == {1, 2}

\* Issue titles in play, and the value of an absent reuseTitle.
Titles == {"Dashboard", "Legacy"}

Undefined == "undefined"

\* Texts are sequences of tokens; "k" is a registered secret.
Secrets == {"k"}

Redacted == "**redacted**"

Bodies == {<<"a">>, <<"k">>}

Descriptions == {<<"a">>, <<Redacted>>}

NoText == <<>>

\* ------------------------------------------------------- pure functions
\* sanitize(text): every occurrence of a secret is replaced by the marker.
sanitize(text) ==
  [i \in DOMAIN text |-> IF text[i] \in Secrets THEN Redacted ELSE text[i]]

\* String.prototype.startsWith on token sequences.
StartsWith(s, prefix) ==
  /\ Len(s) >= Len(prefix)
  /\ SubSeq(s, 1, Len(prefix)) = prefix

IssuesDisabled == <<"Issues are disabled for this repo">>

\* Messages a failing request can carry.
Messages == {IssuesDisabled \o <<"403">>, <<"Request failed">>}

\* Message of the TypeError raised when http is used before init.
TypeErrorMessage == <<"Cannot read properties of undefined">>

\* SelfHostIssue as held in the cache, and the absent find() result.
NoIssue == [iid |-> 0, title |-> Undefined]

\* res.body.map((i) => ({iid: i.iid, title: i.title}))
Project(body) ==
  [i \in DOMAIN body |-> [iid |-> body[i].iid, title |-> body[i].title]]

\* Mutant of Find: the last match instead of the first.
FindLast(list, t) ==
  IF \E i \in DOMAIN list : list[i].title = t
  THEN list[CHOOSE i \in DOMAIN list :
              /\ list[i].title = t
              /\ \A j \in (i + 1)..Len(list) : list[j].title # t]
  ELSE NoIssue

\* Array.prototype.find((i) => i.title === t): first match in list order.
Find(list, t) ==
  IF \E i \in DOMAIN list : list[i].title = t
  THEN list[CHOOSE i \in DOMAIN list :
              /\ list[i].title = t
              /\ \A j \in 1..(i - 1) : list[j].title # t]
  ELSE NoIssue

\* Mutant of NextMatch: the loop breaks after its first match.
NextMatchFirstOnly(list, t, from) ==
  IF from = 1 /\ \E i \in DOMAIN list : list[i].title = t
  THEN CHOOSE i \in DOMAIN list :
         /\ list[i].title = t
         /\ \A j \in 1..(i - 1) : list[j].title # t
  ELSE 0

\* Index of the first element at or after position from titled t, 0 if none:
\* the for-of loop of ensureIssueClosing skipping to its next match.
NextMatch(list, t, from) ==
  IF \E i \in from..Len(list) : list[i].title = t
  THEN CHOOSE i \in from..Len(list) :
         /\ list[i].title = t
         /\ \A j \in from..(i - 1) : list[j].title # t
  ELSE 0

\* ------------------------------------------------------------- requests
\* One entry of an invocation's request log.
Req(method, iid, title, description, event, useCache, ok) ==
  [method |-> method, iid |-> iid, title |-> title, description |-> description,
   state_event |-> event, useCache |-> useCache, ok |-> ok]

\* http.getJson(`${repository}/issues`)
GetList(ok) == Req("GET", 0, Undefined, NoText, "", "", ok)

\* http.getJson(`${repository}/issues/${iid}`, {useCache})
GetOne(iid, useCache, ok) == Req("GET", iid, Undefined, NoText, "", useCache, ok)

\* http.postJson(`/${repository}/issues`, {body: {title, description}})
PostIssue(title, description, ok) == Req("POST", 0, title, description, "", "", ok)

\* http.putJson(`${repository}/issues/${iid}`, {body: {title, description}})
PutEdit(iid, title, description, ok) == Req("PUT", iid, title, description, "", "", ok)

\* http.putJson(`${repository}/issues/${iid}`, {body: {state_event: 'close'}})
PutClose(iid, ok) == Req("PUT", iid, Undefined, NoText, "close", "", ok)

\* Results of the operations, in one record shape.
Res(kind) == [kind |-> kind, number |-> 0, body |-> NoText]

IssueRes(number, body) == [kind |-> "issue", number |-> number, body |-> body]

NoHttp == "none"

NoConfig == [dependencyDashboardUrl |-> "", repository |-> ""]

Configs == [dependencyDashboardUrl : {"", "https://dash"}, repository : {"", "org/repo"}]

VARIABLES
  repository,          \* let repository
  http,                \* let http (its baseUrl, NoHttp before init)
  issueListCache,      \* let issueListCache
  renovateConfig,      \* let renovateConfig
  initThrown,          \* message of the error the last init raised, "" if none
  tracker,             \* the remote issues: <<[iid, title, description, state]>>
  pc,                  \* per task: the await its invocation is suspended at
  args,                \* per task: the operation's arguments
  issueList,           \* per task: const issueList
  issue,               \* per task: the matched issue / loop variable
  idx,                 \* per task: position of the for-of loop in issueList
  existingDescription, \* per task: const existingDescription
  result,              \* per task: the value returned, or the error raised
  reqs,                \* per task: the requests the invocation has issued
  logs,                \* per task: the log entries the invocation wrote
  before,              \* per task: the tasks already finished when it started
  startTracker         \* per task: the tracker when it started

vars == <<repository, http, issueListCache, renovateConfig, initThrown, tracker,
          pc, args, issueList, issue, idx, existingDescription, result, reqs, logs,
          before, startTracker>>

settings == <<repository, http, renovateConfig, initThrown>>

locals == <<issueList, issue, idx, existingDescription>>

NoArgs ==
  [op |-> "", title |-> Undefined, reuseTitle |-> Undefined, body |-> NoText,
   number |-> 0, useCache |-> "true"]

\* Issue lists of at most max issues the tracker may hold when the run
\* starts: ids are positions.
InitTrackers(max) ==
  UNION {[1..n -> [title : Titles, description : Descriptions]] : n \in 0..max}

\* The module as loaded, before init, in front of a tracker of at most max
\* issues.
Loaded(max) ==
  /\ repository = ""
  /\ http = NoHttp
  /\ issueListCache = <<>>
  /\ renovateConfig = NoConfig
  /\ initThrown = ""
  /\ \E t \in InitTrackers(max) :
       tracker = [i \in DOMAIN t |->
                    [iid |-> i, title |-> t[i].title,
                     description |-> t[i].description, state |-> "opened"]]
  /\ pc = [p \in Procs |-> "idle"]
  /\ args = [p \in Procs |-> NoArgs]
  /\ issueList = [p \in Procs |-> <<>>]
  /\ issue = [p \in Procs |-> NoIssue]
  /\ idx = [p \in Procs |-> 0]
  /\ existingDescription = [p \in Procs |-> NoText]
  /\ result = [p \in Procs |-> Res("pending")]
  /\ reqs = [p \in Procs |-> <<>>]
  /\ logs = [p \in Procs |-> <<>>]
  /\ before = [p \in Procs |-> {}]
  /\ startTracker = [p \in Procs |-> <<>>]

Init == Loaded(MaxInit)

InitOne == Loaded(MaxInitOne)

\* ------------------------------------------------------------ transport
\* How the tracker may answer one request: before init every use of http
\* raises a TypeError; afterwards a request succeeds or fails with a message.
Outcomes ==
  IF http = NoHttp
  THEN {[ok |-> FALSE, array |-> FALSE, message |-> TypeErrorMessage]}
  ELSE {[ok |-> TRUE, array |-> TRUE, message |-> NoText]}
       \cup {[ok |-> FALSE, array |-> FALSE, message |-> m] : m \in Messages}

\* Answers to GET {repo}/issues: also a 200 whose body is not an array.
ListOutcomes ==
  Outcomes \cup
    (IF http = NoHttp THEN {}
     ELSE {[ok |-> TRUE, array |-> FALSE, message |-> NoText]})

\* Answers to GET {repo}/issues/{number}: an unknown number cannot succeed.
IssueOutcomes(number) ==
  {o \in Outcomes : o.ok => number \in DOMAIN tracker}

\* Bookkeeping at the start of an invocation.
Started(p, a) ==
  /\ pc[p] = "idle"
  /\ \A q \in Procs : q < p => pc[q] # "idle"
  /\ args' = [args EXCEPT ![p] = a]
  /\ before' = [before EXCEPT ![p] = {q \in Procs : pc[q] = "done"}]
  /\ startTracker' = [startTracker EXCEPT ![p] = tracker]

\* The invocation of p ends with result r.
Finish(p, r) ==
  /\ pc' = [pc EXCEPT ![p] = "done"]
  /\ result' = [result EXCEPT ![p] = r]

\* ----------------------------------------------------------------- init
initError(config) ==
  IF config.dependencyDashboardUrl = "" THEN "SELF_HOSTED_DASHBOARD_URL_UNAVAILABLE"
  ELSE IF config.repository = "" THEN "Repository is null"
  ELSE ""

\* Mutant of init: the module state is assigned before the configuration
\* is validated.
initAssignFirst(config) ==
  /\ initThrown' = initError(config)
  /\ repository' = config.repository
  /\ http' = IF config.dependencyDashboardUrl = "" THEN http
             ELSE config.dependencyDashboardUrl
  /\ renovateConfig' = config
  /\ UNCHANGED <<issueListCache, tracker, pc, args, locals, result, reqs, logs,
                 before, startTracker>>

\* init(config): both checks come before the three assignments.
init(config) ==
  /\ initThrown' = initError(config)
  /\ IF initError(config) # ""
     THEN UNCHANGED <<repository, http, renovateConfig>>
     ELSE /\ repository' = config.repository
          /\ http' = config.dependencyDashboardUrl
          /\ renovateConfig' = config
  /\ UNCHANGED <<issueListCache, tracker, pc, args, locals, result, reqs, logs,
                 before, startTracker>>

\* init is called before the tasks start.
BeforeTasks == \A p \in Procs : pc[p] = "idle"

\* init is called until it has succeeded once.
Uninitialized == http = NoHttp

\* --------------------------------------------------------- getIssueList
\* What getIssueList returns for a response that arrived.
getIssueListReturn(o) ==
  IF o.array THEN Project(tracker) ELSE <<>>

\* Mutant of getIssueListCache: a non-array body empties the cache.
getIssueListCacheOverwrite(o) ==
  IF o.array THEN Project(tracker) ELSE <<>>

\* The cache after getIssueList handled a response that arrived.
getIssueListCache(o) ==
  IF o.array THEN Project(tracker) ELSE issueListCache

\* The log entries getIssueList writes.
getIssueListLogs(o) ==
  IF o.ok /\ ~o.array THEN <<<<"warn", "Could not retrieve issue list">>>> ELSE <<>>

\* ---------------------------------------------------------- ensureIssue
\* Mutant of Match: no fallback to reuseTitle.
MatchTitleOnly(list, title, reuseTitle) ==
  Find(list, title)

\* Mutant of Match: one find over both titles, the first in list order wins.
MatchEither(list, title, reuseTitle) ==
  IF \E i \in DOMAIN list : list[i].title \in {title, reuseTitle}
  THEN list[CHOOSE i \in DOMAIN list :
              /\ list[i].title \in {title, reuseTitle}
              /\ \A j \in 1..(i - 1) : list[j].title \notin {title, reuseTitle}]
  ELSE NoIssue

\* issueList.find by title, then by reuseTitle if none.
Match(list, title, reuseTitle) ==
  IF Find(list, title) # NoIssue THEN Find(list, title) ELSE Find(list, reuseTitle)

\* Mutant of NeedsUpdate: === for !== on the descriptions.
NeedsUpdateInverted(iss, title, existing, description) ==
  iss.title # title \/ existing = description

\* Mutant of NeedsUpdate: && for ||.
NeedsUpdateAnd(iss, title, existing, description) ==
  iss.title # title /\ existing # description

\* Mutant of NeedsUpdate: the comparison is missing, every match is updated.
NeedsUpdateAlways(iss, title, existing, description) ==
  TRUE

\* issue.title !== title || existingDescription !== description
NeedsUpdate(iss, title, existing, description) ==
  iss.title # title \/ existing # description

\* Mutant of Description: the body is sent unsanitized.
DescriptionRaw(body) ==
  body

\* const description = sanitize(body)
Description(body) ==
  sanitize(body)

\* Mutant of ensureIssueFailure: unexpected errors are rethrown.
ensureIssueFailureRethrow(message) ==
  IF StartsWith(message, IssuesDisabled)
  THEN Res("null")
  ELSE [Res("throw") EXCEPT !.body = message]

\* The catch block of ensureIssue falls through to return null.
ensureIssueFailure(message) ==
  Res("null")

\* The catch block of ensureIssue: the log entry it writes for err.message.
ensureIssueCatch(message) ==
  IF StartsWith(message, IssuesDisabled)
  THEN <<"debug", "Could not create issue">>
  ELSE <<"warn", "Could not ensure issue">>

\* Mutant of ensureIssue: a non-array list body is handled as a failed
\* request, caught and answered with null.
ensureIssueMalformedFails(p) ==
  \E title \in Titles, body \in Bodies, o \in ListOutcomes :
  \E reuseTitle \in (Titles \ {title}) \cup {Undefined} :
    /\ Started(p, [NoArgs EXCEPT !.op = "ensureIssue", !.title = title,
                                 !.reuseTitle = reuseTitle, !.body = body])
    /\ reqs' = [reqs EXCEPT ![p] = Append(@, GetList(o.ok))]
    /\ IF ~o.ok \/ ~o.array
       THEN /\ Finish(p, ensureIssueFailure(o.message))
            /\ logs' = [logs EXCEPT ![p] =
                          (@ \o getIssueListLogs(o)) \o <<ensureIssueCatch(o.message)>>]
            /\ UNCHANGED <<issueListCache, issueList, issue>>
       ELSE /\ issueListCache' = getIssueListCache(o)
            /\ issueList' = [issueList EXCEPT ![p] = getIssueListReturn(o)]
            /\ issue' = [issue EXCEPT ![p] = Match(getIssueListReturn(o), title, reuseTitle)]
            /\ logs' = [logs EXCEPT ![p] = @ \o getIssueListLogs(o)]
            /\ pc' = [pc EXCEPT ![p] =
                        IF issue'[p] # NoIssue THEN "ensureIssue:get" ELSE "ensureIssue:post"]
            /\ UNCHANGED result
    /\ UNCHANGED <<settings, tracker, idx, existingDescription>>

\* Mutant of ensureIssue: the match is searched in issueListCache instead of
\* the list getIssueList returned.
ensureIssueFromCache(p) ==
  \E title \in Titles, body \in Bodies, o \in ListOutcomes :
  \E reuseTitle \in (Titles \ {title}) \cup {Undefined} :
    /\ Started(p, [NoArgs EXCEPT !.op = "ensureIssue", !.title = title,
                                 !.reuseTitle = reuseTitle, !.body = body])
    /\ reqs' = [reqs EXCEPT ![p] = Append(@, GetList(o.ok))]
    /\ IF ~o.ok
       THEN /\ Finish(p, ensureIssueFailure(o.message))
            /\ logs' = [logs EXCEPT ![p] = Append(@, ensureIssueCatch(o.message))]
            /\ UNCHANGED <<issueListCache, issueList, issue>>
       ELSE /\ issueListCache' = getIssueListCache(o)
            /\ issueList' = [issueList EXCEPT ![p] = getIssueListReturn(o)]
            /\ issue' = [issue EXCEPT ![p] = Match(issueListCache', title, reuseTitle)]
            /\ logs' = [logs EXCEPT ![p] = @ \o getIssueListLogs(o)]
            /\ pc' = [pc EXCEPT ![p] =
                        IF issue'[p] # NoIssue THEN "ensureIssue:get" ELSE "ensureIssue:post"]
            /\ UNCHANGED result
    /\ UNCHANGED <<settings, tracker, idx, existingDescription>>

\* ensureIssue up to the answer to its list request.
ensureIssue(p) ==
  \E title \in Titles, body \in Bodies, o \in ListOutcomes :
  \E reuseTitle \in (Titles \ {title}) \cup {Undefined} :
    /\ Started(p, [NoArgs EXCEPT !.op = "ensureIssue", !.title = title,
                                 !.reuseTitle = reuseTitle, !.body = body])
    /\ reqs' = [reqs EXCEPT ![p] = Append(@, GetList(o.ok))]
    /\ IF ~o.ok
       THEN /\ Finish(p, ensureIssueFailure(o.message))
            /\ logs' = [logs EXCEPT ![p] = Append(@, ensureIssueCatch(o.message))]
            /\ UNCHANGED <<issueListCache, issueList, issue>>
       ELSE /\ issueListCache' = getIssueListCache(o)
            /\ issueList' = [issueList EXCEPT ![p] = getIssueListReturn(o)]
            /\ issue' = [issue EXCEPT ![p] = Match(getIssueListReturn(o), title, reuseTitle)]
            /\ logs' = [logs EXCEPT ![p] = @ \o getIssueListLogs(o)]
            /\ pc' = [pc EXCEPT ![p] =
                        IF issue'[p] # NoIssue THEN "ensureIssue:get" ELSE "ensureIssue:post"]
            /\ UNCHANGED result
    /\ UNCHANGED <<settings, tracker, idx, existingDescription>>

\* Mutant of ensureIssue_get: a failed description request is swallowed on
\* the spot and the comparison goes on with an undefined description.
ensureIssue_getUngated(p) ==
  /\ pc[p] = "ensureIssue:get"
  /\ \E o \in IssueOutcomes(issue[p].iid) :
       /\ reqs' = [reqs EXCEPT ![p] = Append(@, GetOne(issue[p].iid, "", o.ok))]
       /\ existingDescription' =
            [existingDescription EXCEPT ![p] =
               IF o.ok THEN tracker[issue[p].iid].description ELSE NoText]
       /\ IF NeedsUpdate(issue[p], args[p].title, existingDescription'[p],
                         Description(args[p].body))
          THEN /\ pc' = [pc EXCEPT ![p] = "ensureIssue:put"]
               /\ logs' = [logs EXCEPT ![p] = Append(@, <<"debug", "Updating issue">>)]
               /\ UNCHANGED result
          ELSE /\ Finish(p, Res("null"))
               /\ UNCHANGED logs
  /\ UNCHANGED <<settings, issueListCache, tracker, args, issueList, issue, idx,
                 before, startTracker>>

\* The answer to the request for the matched issue's description.
ensureIssue_get(p) ==
  /\ pc[p] = "ensureIssue:get"
  /\ \E o \in IssueOutcomes(issue[p].iid) :
       /\ reqs' = [reqs EXCEPT ![p] = Append(@, GetOne(issue[p].iid, "", o.ok))]
       /\ IF ~o.ok
          THEN /\ Finish(p, ensureIssueFailure(o.message))
               /\ logs' = [logs EXCEPT ![p] = Append(@, ensureIssueCatch(o.message))]
               /\ UNCHANGED existingDescription
          ELSE /\ existingDescription' =
                    [existingDescription EXCEPT ![p] = tracker[issue[p].iid].description]
               /\ IF NeedsUpdate(issue[p], args[p].title, existingDescription'[p],
                                 Description(args[p].body))
                  THEN /\ pc' = [pc EXCEPT ![p] = "ensureIssue:put"]
                       /\ logs' = [logs EXCEPT ![p] = Append(@, <<"debug", "Updating issue">>)]
                       /\ UNCHANGED result
                  ELSE /\ Finish(p, Res("null"))
                       /\ UNCHANGED logs
  /\ UNCHANGED <<settings, issueListCache, tracker, args, issueList, issue, idx,
                 before, startTracker>>

\* Mutant of ApplyEdit: the request body carries the description only.
ApplyEditDescriptionOnly(iid, title, description) ==
  [tracker EXCEPT ![iid].description = description]

\* The tracker after PUT {title, description} on issue iid.
ApplyEdit(iid, title, description) ==
  [tracker EXCEPT ![iid].title = title, ![iid].description = description]

\* The tracker after POST {title, description}.
ApplyCreate(title, description) ==
  Append(tracker, [iid |-> Len(tracker) + 1, title |-> title,
                   description |-> description, state |-> "opened"])

\* The tracker after PUT {state_event: 'close'} on issue iid.
ApplyClose(iid) ==
  [tracker EXCEPT ![iid].state = "closed"]

\* The answer to the update request.
ensureIssue_put(p) ==
  /\ pc[p] = "ensureIssue:put"
  /\ \E o \in Outcomes :
       /\ reqs' = [reqs EXCEPT ![p] =
                     Append(@, PutEdit(issue[p].iid, args[p].title,
                                       Description(args[p].body), o.ok))]
       /\ IF ~o.ok
          THEN /\ Finish(p, ensureIssueFailure(o.message))
               /\ logs' = [logs EXCEPT ![p] = Append(@, ensureIssueCatch(o.message))]
               /\ UNCHANGED tracker
          ELSE /\ tracker' = ApplyEdit(issue[p].iid, args[p].title, Description(args[p].body))
               /\ Finish(p, Res("updated"))
               /\ UNCHANGED logs
  /\ UNCHANGED <<settings, issueListCache, args, locals, before, startTracker>>

\* Mutant of ensureIssue_post: the create is skipped when the tracker holds
\* an issue with the title by the time the request is served.
ensureIssue_postChecked(p) ==
  /\ pc[p] = "ensureIssue:post"
  /\ \E o \in Outcomes :
       IF o.ok /\ \E n \in DOMAIN tracker : tracker[n].title = args[p].title
       THEN /\ Finish(p, Res("null"))
            /\ UNCHANGED <<reqs, logs, tracker>>
       ELSE /\ reqs' = [reqs EXCEPT ![p] =
                          Append(@, PostIssue(args[p].title, Description(args[p].body), o.ok))]
            /\ IF ~o.ok
               THEN /\ Finish(p, ensureIssueFailure(o.message))
                    /\ logs' = [logs EXCEPT ![p] = Append(@, ensureIssueCatch(o.message))]
                    /\ UNCHANGED tracker
               ELSE /\ tracker' = ApplyCreate(args[p].title, Description(args[p].body))
                    /\ Finish(p, Res("created"))
                    /\ logs' = [logs EXCEPT ![p] = Append(@, <<"info", "Issue created">>)]
  /\ UNCHANGED <<settings, issueListCache, args, locals, before, startTracker>>

\* The answer to the create request.
ensureIssue_post(p) ==
  /\ pc[p] = "ensureIssue:post"
  /\ \E o \in Outcomes :
       /\ reqs' = [reqs EXCEPT ![p] =
                     Append(@, PostIssue(args[p].title, Description(args[p].body), o.ok))]
       /\ IF ~o.ok
          THEN /\ Finish(p, ensureIssueFailure(o.message))
               /\ logs' = [logs EXCEPT ![p] = Append(@, ensureIssueCatch(o.message))]
               /\ UNCHANGED tracker
          ELSE /\ tracker' = ApplyCreate(args[p].title, Description(args[p].body))
               /\ Finish(p, Res("created"))
               /\ logs' = [logs EXCEPT ![p] = Append(@, <<"info", "Issue created">>)]
  /\ UNCHANGED <<settings, issueListCache, args, locals, before, startTracker>>

\* --------------------------------------------------- ensureIssueClosing
\* The for-of loop from position from: suspend at the close request of the
\* next issue titled title, or return when there is none left.
ClosingLoop(p, list, title, from) ==
  LET n == NextMatch(list, title, from) IN
    /\ idx' = [idx EXCEPT ![p] = n]
    /\ IF n = 0
       THEN /\ Finish(p, Res("void"))
            /\ issue' = [issue EXCEPT ![p] = NoIssue]
            /\ UNCHANGED logs
       ELSE /\ pc' = [pc EXCEPT ![p] = "ensureIssueClosing:put"]
            /\ issue' = [issue EXCEPT ![p] = list[n]]
            /\ logs' = [logs EXCEPT ![p] = Append(@, <<"debug", "Closing issue">>)]
            /\ UNCHANGED result

\* Mutant of ensureIssueClosingFailure: the failure is swallowed.
ensureIssueClosingFailureSwallow(message) ==
  Res("void")

\* ensureIssueClosing has no try/catch: a failing request rejects its promise.
ensureIssueClosingFailure(message) ==
  [Res("throw") EXCEPT !.body = message]

\* ensureIssueClosing up to the answer to its list request.
ensureIssueClosing(p) ==
  \E title \in Titles, o \in ListOutcomes :
    /\ Started(p, [NoArgs EXCEPT !.op = "ensureIssueClosing", !.title = title])
    /\ reqs' = [reqs EXCEPT ![p] = Append(@, GetList(o.ok))]
    /\ IF ~o.ok
       THEN /\ Finish(p, ensureIssueClosingFailure(o.message))
            /\ UNCHANGED <<issueListCache, issueList, issue, idx, logs>>
       ELSE /\ issueListCache' = getIssueListCache(o)
            /\ issueList' = [issueList EXCEPT ![p] = getIssueListReturn(o)]
            /\ IF getIssueListLogs(o) = <<>>
               THEN ClosingLoop(p, getIssueListReturn(o), title, 1)
               ELSE /\ Finish(p, Res("void"))
                    /\ logs' = [logs EXCEPT ![p] = @ \o getIssueListLogs(o)]
                    /\ UNCHANGED <<issue, idx>>
    /\ UNCHANGED <<settings, tracker, existingDescription>>

\* Mutant of ensureIssueClosing_put: a failed close request is skipped and
\* the loop goes on to the next match.
ensureIssueClosing_putContinue(p) ==
  /\ pc[p] = "ensureIssueClosing:put"
  /\ \E o \in Outcomes :
       /\ reqs' = [reqs EXCEPT ![p] = Append(@, PutClose(issue[p].iid, o.ok))]
       /\ tracker' = IF o.ok THEN ApplyClose(issue[p].iid) ELSE tracker
       /\ ClosingLoop(p, issueList[p], args[p].title, idx[p] + 1)
  /\ UNCHANGED <<settings, issueListCache, args, issueList, existingDescription,
                 before, startTracker>>

\* The answer to one close request.
ensureIssueClosing_put(p) ==
  /\ pc[p] = "ensureIssueClosing:put"
  /\ \E o \in Outcomes :
       /\ reqs' = [reqs EXCEPT ![p] = Append(@, PutClose(issue[p].iid, o.ok))]
       /\ IF ~o.ok
          THEN /\ Finish(p, ensureIssueClosingFailure(o.message))
               /\ UNCHANGED <<tracker, issue, idx, logs>>
          ELSE /\ tracker' = ApplyClose(issue[p].iid)
               /\ ClosingLoop(p, issueList[p], args[p].title, idx[p] + 1)
  /\ UNCHANGED <<settings, issueListCache, args, issueList, existingDescription,
                 before, startTracker>>

\* ------------------------------------------------------------- getIssue
\* Mutant of getIssueResult: no try/catch around the request.
getIssueResultThrow(number, o) ==
  IF o.ok
  THEN IssueRes(number, tracker[number].description)
  ELSE [Res("throw") EXCEPT !.body = o.message]

\* What getIssue(number) returns for the answer o to its request.
getIssueResult(number, o) ==
  IF o.ok THEN IssueRes(number, tracker[number].description) ELSE Res("null")

\* The log entries getIssue writes.
getIssueLogs(o) ==
  IF o.ok THEN <<>> ELSE <<<<"warn", "Error getting issue">>>>

\* Issue numbers a caller may ask for; the shorter trackers hold no such issue.
Numbers == 1..MaxInitOne

getIssue(p) ==
  \E number \in Numbers, useCache \in {"true", "false"} :
    \E o \in IssueOutcomes(number) :
      /\ Started(p, [NoArgs EXCEPT !.op = "getIssue", !.number = number,
                                   !.useCache = useCache])
      /\ reqs' = [reqs EXCEPT ![p] = Append(@, GetOne(number, useCache, o.ok))]
      /\ logs' = [logs EXCEPT ![p] = @ \o getIssueLogs(o)]
      /\ Finish(p, getIssueResult(number, o))
      /\ UNCHANGED <<settings, issueListCache, tracker, locals>>

\* ------------------------------------------------------------ findIssue
\* findIssue up to the answer to its list request.
findIssue(p) ==
  \E title \in Titles, o \in ListOutcomes :
    /\ Started(p, [NoArgs EXCEPT !.op = "findIssue", !.title = title])
    /\ reqs' = [reqs EXCEPT ![p] = Append(@, GetList(o.ok))]
    /\ IF ~o.ok
       THEN /\ Finish(p, Res("null"))
            /\ logs' = [logs EXCEPT ![p] = Append(@, <<"warn", "Error finding issue">>)]
            /\ UNCHANGED <<issueListCache, issueList, issue>>
       ELSE /\ issueListCache' = getIssueListCache(o)
            /\ issueList' = [issueList EXCEPT ![p] = getIssueListReturn(o)]
            /\ issue' = [issue EXCEPT ![p] = Find(getIssueListReturn(o), title)]
            /\ logs' = [logs EXCEPT ![p] = @ \o getIssueListLogs(o)]
            /\ IF issue'[p] = NoIssue
               THEN Finish(p, Res("null"))
               ELSE /\ pc' = [pc EXCEPT ![p] = "findIssue:getIssue"]
                    /\ UNCHANGED result
    /\ UNCHANGED <<settings, tracker, idx, existingDescription>>

\* The answer to the delegated getIssue(issue.iid).
findIssue_getIssue(p) ==
  /\ pc[p] = "findIssue:getIssue"
  /\ \E o \in IssueOutcomes(issue[p].iid) :
       /\ reqs' = [reqs EXCEPT ![p] = Append(@, GetOne(issue[p].iid, "true", o.ok))]
       /\ logs' = [logs EXCEPT ![p] = @ \o getIssueLogs(o)]
       /\ Finish(p, getIssueResult(issue[p].iid, o))
  /\ UNCHANGED <<settings, issueListCache, tracker, args, locals, before, startTracker>>

\* ------------------------------------------------------- specification
Next ==
  \/ \E config \in Configs : BeforeTasks /\ Uninitialized /\ init(config)
  \/ \E p \in Procs : ensureIssue(p)
  \/ \E p \in Procs : ensureIssue_get(p)
  \/ \E p \in Procs : ensureIssue_put(p)
  \/ \E p \in Procs : ensureIssue_post(p)
  \/ \E p \in Procs : ensureIssueClosing(p)
  \/ \E p \in Procs : ensureIssueClosing_put(p)
  \/ \E p \in Procs : getIssue(p)
  \/ \E p \in Procs : findIssue(p)
  \/ \E p \in Procs : findIssue_getIssue(p)

\* Two invocations, interleaved at their awaits.
Spec == Init /\ [][Next]_vars

\* One invocation by itself.
NextOne ==
  \/ \E config \in Configs : BeforeTasks /\ init(config)
  \/ ensureIssue(1)
  \/ ensureIssue_get(1)
  \/ ensureIssue_put(1)
  \/ ensureIssue_post(1)
  \/ ensureIssueClosing(1)
  \/ ensureIssueClosing_put(1)
  \/ getIssue(1)
  \/ findIssue(1)
  \/ findIssue_getIssue(1)

SpecOne == InitOne /\ [][NextOne]_vars

\* ================================================================ claims
\* Vocabulary of the properties, stated on what an invocation observed and
\* issued, independently of the operators that model the code.
Done(p) == pc[p] = "done"

Called(p, op) == args[p].op = op

\* Positions in the request log of p holding a request of the given method.
Sent(p, method) == {i \in DOMAIN reqs[p] : reqs[p][i].method = method}

\* Every request p issued was answered successfully.
AllSucceeded(p) == \A i \in DOMAIN reqs[p] : reqs[p][i].ok

SomeFailed(p) == \E i \in DOMAIN reqs[p] : ~reqs[p][i].ok

\* The list request of p was answered successfully (issueList[p] is what
\* getIssueList returned).
ListFetched(p) == Len(reqs[p]) >= 1 /\ reqs[p][1].ok

\* The list response was not an array.
Malformed(p) ==
  \E i \in DOMAIN logs[p] : logs[p][i] = <<"warn", "Could not retrieve issue list">>

\* The description request of p (its second request) was answered successfully.
BodyFetched(p) == Len(reqs[p]) >= 2 /\ reqs[p][2].ok

HasTitle(list, t) == \E i \in DOMAIN list : list[i].title = t

\* list[i] is the first issue of list, in list order, titled t.
IsFirstTitled(list, i, t) ==
  /\ i \in DOMAIN list
  /\ list[i].title = t
  /\ \A j \in 1..(i - 1) : list[j].title # t

\* No other task ran during or after the invocation of p.
Alone(p) == \A q \in Procs \ {p} : pc[q] = "idle" \/ q \in before[p]

\* C1: an ensureIssue whose requests all succeeded and whose fetched list
\* holds no issue titled title and none titled reuseTitle has issued exactly
\* one POST, carrying title and sanitize(body), no PUT, and returned 'created'.
C1_CreateWhenAbsent ==
  \A p \in Procs :
    ( /\ Done(p) /\ Called(p, "ensureIssue") /\ AllSucceeded(p)
      /\ ~HasTitle(issueList[p], args[p].title)
      /\ ~HasTitle(issueList[p], args[p].reuseTitle) )
    => /\ Cardinality(Sent(p, "POST")) = 1
       /\ \A i \in Sent(p, "POST") :
            /\ reqs[p][i].title = args[p].title
            /\ reqs[p][i].description = sanitize(args[p].body)
       /\ Sent(p, "PUT") = {}
       /\ result[p] = Res("created")

\* C1 witness: a create whose body held a secret, from a non-empty list.
C1_Witness ==
  \E p \in Procs :
    /\ Done(p) /\ Called(p, "ensureIssue") /\ AllSucceeded(p)
    /\ issueList[p] # <<>>
    /\ ~HasTitle(issueList[p], args[p].title)
    /\ ~HasTitle(issueList[p], args[p].reuseTitle)
    /\ args[p].body # sanitize(args[p].body)
    /\ result[p] = Res("created")

\* C2: an ensureIssue that matched an issue by title (the first so titled in
\* its fetched list) and found its stored description equal to sanitize(body)
\* has issued no POST and no PUT and returned null; run alone, it leaves the
\* tracker as it found it.  The same holds when the description request fails.
C2_UnchangedWhenSame ==
  \A p \in Procs :
    ( /\ Done(p) /\ Called(p, "ensureIssue") /\ ListFetched(p)
      /\ HasTitle(issueList[p], args[p].title)
      /\ BodyFetched(p) => existingDescription[p] = sanitize(args[p].body) )
    => /\ Sent(p, "POST") = {}
       /\ Sent(p, "PUT") = {}
       /\ result[p] = Res("null")
       /\ Alone(p) => tracker = startTracker[p]

\* C2 witness: the stored description equals the sanitized body, not the body.
C2_Witness ==
  \E p \in Procs :
    /\ Done(p) /\ Called(p, "ensureIssue") /\ AllSucceeded(p)
    /\ HasTitle(issueList[p], args[p].title)
    /\ BodyFetched(p)
    /\ existingDescription[p] = sanitize(args[p].body)
    /\ existingDescription[p] # args[p].body
    /\ result[p] = Res("null")

\* C3: an ensureIssue whose requests all succeeded, that matched an issue by
\* title and found its stored description different from sanitize(body), has
\* issued exactly one PUT, for that issue's id, carrying title and
\* sanitize(body), no POST, and returned 'updated'.
C3_UpdateWhenBodyDiffers ==
  \A p \in Procs :
    ( /\ Done(p) /\ Called(p, "ensureIssue") /\ AllSucceeded(p)
      /\ HasTitle(issueList[p], args[p].title)
      /\ existingDescription[p] # sanitize(args[p].body) )
    => /\ Cardinality(Sent(p, "PUT")) = 1
       /\ \A i \in Sent(p, "PUT") :
            /\ \E n \in DOMAIN issueList[p] :
                 /\ IsFirstTitled(issueList[p], n, args[p].title)
                 /\ reqs[p][i].iid = issueList[p][n].iid
            /\ reqs[p][i].title = args[p].title
            /\ reqs[p][i].description = sanitize(args[p].body)
            /\ reqs[p][i].state_event = ""
       /\ Sent(p, "POST") = {}
       /\ result[p] = Res("updated")

\* C3 witness: an update of a title match whose stored description differed.
C3_Witness ==
  \E p \in Procs :
    /\ Done(p) /\ Called(p, "ensureIssue") /\ AllSucceeded(p)
    /\ HasTitle(issueList[p], args[p].title)
    /\ existingDescription[p] # sanitize(args[p].body)
    /\ result[p] = Res("updated")
    /\ Alone(p)
    /\ \E n \in DOMAIN tracker :
         /\ IsFirstTitled(issueList[p], n, args[p].title)
         /\ tracker[n].description = sanitize(args[p].body)
         /\ startTracker[p][n].description # sanitize(args[p].body)

\* C4: an ensureIssue whose requests all succeeded, whose fetched list holds
\* no issue titled title but one titled reuseTitle, takes the found-issue
\* branch: no POST, exactly one PUT, on the first issue titled reuseTitle,
\* carrying title and sanitize(body), and 'updated', whatever that issue's
\* stored description is.
C4_ReuseTitleUpdates ==
  \A p \in Procs :
    ( /\ Done(p) /\ Called(p, "ensureIssue") /\ AllSucceeded(p)
      /\ ~HasTitle(issueList[p], args[p].title)
      /\ HasTitle(issueList[p], args[p].reuseTitle) )
    => /\ Sent(p, "POST") = {}
       /\ Cardinality(Sent(p, "PUT")) = 1
       /\ \A i \in Sent(p, "PUT") :
            /\ \E n \in DOMAIN issueList[p] :
                 /\ IsFirstTitled(issueList[p], n, args[p].reuseTitle)
                 /\ reqs[p][i].iid = issueList[p][n].iid
            /\ reqs[p][i].title = args[p].title
            /\ reqs[p][i].description = sanitize(args[p].body)
            /\ reqs[p][i].state_event = ""
       /\ result[p] = Res("updated")

\* C4 witness: the reused issue already stored sanitize(body) and is renamed.
C4_Witness ==
  \E p \in Procs :
    /\ Done(p) /\ Called(p, "ensureIssue") /\ AllSucceeded(p) /\ Alone(p)
    /\ ~HasTitle(issueList[p], args[p].title)
    /\ HasTitle(issueList[p], args[p].reuseTitle)
    /\ existingDescription[p] = sanitize(args[p].body)
    /\ result[p] = Res("updated")
    /\ \E n \in DOMAIN tracker :
         /\ startTracker[p][n].title = args[p].reuseTitle
         /\ tracker[n].title = args[p].title

\* C5: q calls ensureIssue after p's ensureIssue with the same title T and
\* body returned 'created' on a tracker that held no issue titled T, nothing
\* else running in between, and q's list response is an array: q has issued
\* no POST and no PUT and returned null, and the tracker holds exactly one
\* issue titled T.
C5_Idempotent ==
  \A p \in Procs : \A q \in Procs \ {p} :
    ( /\ Done(p) /\ Called(p, "ensureIssue") /\ result[p] = Res("created")
      /\ ~HasTitle(startTracker[p], args[p].title)
      /\ before[p] = {}
      /\ Done(q) /\ Called(q, "ensureIssue") /\ before[q] = {p}
      /\ args[q].title = args[p].title /\ args[q].body = args[p].body
      /\ ~Malformed(q) )
    => /\ Sent(q, "POST") = {}
       /\ Sent(q, "PUT") = {}
       /\ result[q] = Res("null")
       /\ Cardinality({n \in DOMAIN tracker : tracker[n].title = args[p].title}) = 1

\* C5 witness: the second call fetched the list and the created issue's
\* description, found it equal and did nothing.
C5_Witness ==
  \E p \in Procs : \E q \in Procs \ {p} :
    /\ Done(p) /\ Called(p, "ensureIssue") /\ result[p] = Res("created")
    /\ ~HasTitle(startTracker[p], args[p].title)
    /\ Done(q) /\ Called(q, "ensureIssue") /\ before[q] = {p}
    /\ args[q].title = args[p].title /\ args[q].body = args[p].body
    /\ args[p].body # sanitize(args[p].body)
    /\ AllSucceeded(q) /\ Len(reqs[q]) = 2 /\ ~Malformed(q)
    /\ result[q] = Res("null")

\* C6: ensureIssue never raises: whichever of its requests fails, with
\* whichever message (also before init, when http is undefined), it ends
\* there and returns null; its result is never a raised error.
C6_EnsureIssueNeverThrows ==
  \A p \in Procs :
    Called(p, "ensureIssue") =>
      /\ result[p].kind # "throw"
      /\ Done(p) => result[p] \in {Res("created"), Res("updated"), Res("null")}
      /\ SomeFailed(p) =>
           /\ Done(p)
           /\ result[p] = Res("null")
           /\ \A i \in DOMAIN reqs[p] : ~reqs[p][i].ok => i = Len(reqs[p])

\* C6 witness: the update request failed with a message other than 'Issues
\* are disabled', was logged as a warning, and null was returned.
C6_Witness ==
  \E p \in Procs :
    /\ Done(p) /\ Called(p, "ensureIssue")
    /\ Len(reqs[p]) = 3 /\ reqs[p][3].method = "PUT" /\ ~reqs[p][3].ok
    /\ logs[p][Len(logs[p])] = <<"warn", "Could not ensure issue">>
    /\ result[p] = Res("null")

\* Positions in the request log of p holding a close request for issue iid.
Closes(p, iid) ==
  {i \in Sent(p, "PUT") : reqs[p][i].iid = iid /\ reqs[p][i].state_event = "close"}

\* C7: an ensureIssueClosing(X) whose requests all succeeded has issued
\* exactly one close request for every issue of its fetched list titled X,
\* duplicates included, none for an issue titled otherwise, and no other
\* mutating request; run alone, exactly those issues changed, to closed.
C7_ClosesEveryMatch ==
  \A p \in Procs :
    (Done(p) /\ Called(p, "ensureIssueClosing") /\ AllSucceeded(p)) =>
      /\ \A n \in DOMAIN issueList[p] :
           Cardinality(Closes(p, issueList[p][n].iid)) =
             (IF issueList[p][n].title = args[p].title THEN 1 ELSE 0)
      /\ \A i \in DOMAIN reqs[p] :
           i > 1 => \E n \in DOMAIN issueList[p] : i \in Closes(p, issueList[p][n].iid)
      /\ result[p] = Res("void")
      /\ Alone(p) =>
           /\ DOMAIN tracker = DOMAIN startTracker[p]
           /\ \A n \in DOMAIN tracker :
                tracker[n] =
                  IF ListFetched(p) /\ ~Malformed(p) /\ startTracker[p][n].title = args[p].title
                  THEN [startTracker[p][n] EXCEPT !.state = "closed"]
                  ELSE startTracker[p][n]

\* C7 witness: two issues titled X around one titled otherwise: two closes.
C7_Witness ==
  \E p \in Procs :
    /\ Done(p) /\ Called(p, "ensureIssueClosing") /\ AllSucceeded(p)
    /\ Len(issueList[p]) = 3
    /\ issueList[p][1].title = args[p].title
    /\ issueList[p][2].title # args[p].title
    /\ issueList[p][3].title = args[p].title
    /\ Cardinality(Sent(p, "PUT")) = 2
    /\ tracker[1].state = "closed" /\ tracker[2].state = "opened"
    /\ tracker[3].state = "closed"

\* C8: an ensureIssueClosing one of whose requests failed (the list request
\* or a close request) has ended there by raising that failure to its caller.
C8_ClosingPropagatesFailure ==
  \A p \in Procs :
    (Called(p, "ensureIssueClosing") /\ SomeFailed(p)) =>
      /\ Done(p)
      /\ result[p].kind = "throw"
      /\ result[p].body \in Messages \cup {TypeErrorMessage}
      /\ ~reqs[p][Len(reqs[p])].ok
      /\ \A i \in 1..(Len(reqs[p]) - 1) : reqs[p][i].ok

\* C8 witness: the second close request failed after the first succeeded.
C8_Witness ==
  \E p \in Procs :
    /\ Done(p) /\ Called(p, "ensureIssueClosing")
    /\ Len(reqs[p]) = 3 /\ reqs[p][2].ok /\ ~reqs[p][3].ok
    /\ reqs[p][3].state_event = "close"
    /\ result[p].kind = "throw"

\* C9: a findIssue(title) whose list request succeeded returns null when its
\* fetched list holds no issue with that title; otherwise it asks for the
\* first issue so titled and returns null (that request failed) or its
\* number with the description fetched for it, which, when no other task
\* ran, is the description the tracker stores for that first match.
C9_FindIssueFirstMatch ==
  \A p \in Procs :
    (Done(p) /\ Called(p, "findIssue") /\ ListFetched(p)) =>
      /\ ~HasTitle(issueList[p], args[p].title) =>
           result[p] = Res("null") /\ Len(reqs[p]) = 1
      /\ \A n \in DOMAIN issueList[p] :
           IsFirstTitled(issueList[p], n, args[p].title) =>
             /\ Len(reqs[p]) = 2
             /\ reqs[p][2].method = "GET" /\ reqs[p][2].iid = issueList[p][n].iid
             /\ IF reqs[p][2].ok
                THEN /\ result[p].kind = "issue"
                     /\ result[p].number = issueList[p][n].iid
                     /\ Alone(p) =>
                          result[p].body = tracker[issueList[p][n].iid].description
                ELSE result[p] = Res("null")

\* C9 witness: a later duplicate stores another description than the first
\* match, whose data is returned.
C9_Witness ==
  \E p \in Procs :
    /\ Done(p) /\ Called(p, "findIssue") /\ AllSucceeded(p) /\ Alone(p)
    /\ result[p].kind = "issue"
    /\ \E n \in DOMAIN tracker :
         /\ n > result[p].number
         /\ tracker[n].title = args[p].title
         /\ tracker[n].description # result[p].body

\* C10: getIssue and findIssue never raise and never issue a POST or PUT:
\* every request they make is a GET, a failed request ends them with null,
\* and run alone they leave the tracker as they found it.
C10_ReadPathNeverThrows ==
  \A p \in Procs :
    (Called(p, "getIssue") \/ Called(p, "findIssue")) =>
      /\ result[p].kind \in {"pending", "null", "issue"}
      /\ \A i \in DOMAIN reqs[p] : reqs[p][i].method = "GET"
      /\ SomeFailed(p) => Done(p) /\ result[p] = Res("null")
      /\ Alone(p) => tracker = startTracker[p]

\* C10 witness: a findIssue whose delegated description request failed
\* after its list request had found the issue.
C10_Witness ==
  \E p \in Procs :
    /\ Done(p) /\ Called(p, "findIssue")
    /\ HasTitle(issueList[p], args[p].title)
    /\ Len(reqs[p]) = 2 /\ reqs[p][1].ok /\ ~reqs[p][2].ok
    /\ logs[p] = <<<<"warn", "Error getting issue">>>>
    /\ result[p] = Res("null")

\* C11: every init with a configuration that lacks the dashboard URL or the
\* repository raises an error and leaves repository, http and renovateConfig
\* (and the cache) as they were; an init that raises nothing has stored the
\* configuration's repository, URL and the configuration itself.
C11_InitValidatesFirst ==
  [][\A config \in Configs :
       init(config) =>
         IF config.dependencyDashboardUrl = "" \/ config.repository = ""
         THEN /\ initThrown' # ""
              /\ UNCHANGED <<repository, http, renovateConfig, issueListCache>>
         ELSE /\ initThrown' = ""
              /\ repository' = config.repository
              /\ http' = config.dependencyDashboardUrl
              /\ renovateConfig' = config]_vars

\* C11 witness: an init failed for its missing repository after an earlier
\* init had succeeded, and the established state is still there.
C11_Witness ==
  /\ initThrown = "Repository is null"
  /\ repository = "org/repo"
  /\ http = "https://dash"
  /\ renovateConfig = [dependencyDashboardUrl |-> "https://dash", repository |-> "org/repo"]

\* The step in which the list request of p, its first request, is answered.
ListCallStep(p) ==
  /\ reqs[p] = <<>>
  /\ Len(reqs'[p]) = 1
  /\ reqs'[p][1].method = "GET" /\ reqs'[p][1].iid = 0 /\ reqs'[p][1].ok

\* The {iid, title} view of the issues the tracker holds.
Listing == [i \in DOMAIN tracker |-> [iid |-> tracker[i].iid, title |-> tracker[i].title]]

C13_TitleBeforeReuseTitle ==
  \A p \in Procs :
    ( /\ Called(p, "ensureIssue") /\ ListFetched(p)
      /\ HasTitle(issueList[p], args[p].title)
      /\ HasTitle(issueList[p], args[p].reuseTitle) )
    => \E i \in DOMAIN issueList[p] :
         /\ IsFirstTitled(issueList[p], i, args[p].title)
         /\ Done(p) => Len(reqs[p]) >= 2
         /\ Len(reqs[p]) >= 2 =>
              reqs[p][2].method = "GET" /\ reqs[p][2].iid = issueList[p][i].iid
         /\ \A k \in 2..Len(reqs[p]) : reqs[p][k].iid = issueList[p][i].iid
         /\ \A k \in DOMAIN reqs[p] : \A j \in DOMAIN issueList[p] :
              issueList[p][j].title = args[p].reuseTitle
                => reqs[p][k].iid # issueList[p][j].iid
         /\ Sent(p, "POST") = {}

\* C13 witness: the issue titled reuseTitle comes first in the fetched list,
\* and the issue titled title behind it was fetched, compared and updated.
C13_Witness ==
  \E p \in Procs : \E i, j \in DOMAIN issueList[p] :
    /\ Done(p) /\ Called(p, "ensureIssue") /\ AllSucceeded(p)
    /\ j < i
    /\ issueList[p][j].title = args[p].reuseTitle
    /\ IsFirstTitled(issueList[p], i, args[p].title)
    /\ reqs[p][2].iid = issueList[p][i].iid
    /\ result[p] = Res("updated")

\* The operations that start with a list request.
ListingOps == {"ensureIssue", "ensureIssueClosing", "findIssue"}

\* C14: the first request of an ensureIssue, ensureIssueClosing or findIssue
\* is the list request, and every request but the last one issued was
\* answered successfully; ensureIssue sends a PUT only as its third request,
\* after a successful list request and a successful description request for
\* the same issue, and a POST only as its second request, after a successful
\* list request; an ensureIssue whose list or description request failed has
\* sent no POST and no PUT and, run alone, left the tracker as it was.
C14_SequentialGated ==
  \A p \in Procs :
    (args[p].op \in ListingOps /\ reqs[p] # <<>>) =>
      /\ reqs[p][1].method = "GET" /\ reqs[p][1].iid = 0
      /\ \A k \in DOMAIN reqs[p] : k < Len(reqs[p]) => reqs[p][k].ok
      /\ Called(p, "ensureIssue") =>
           /\ \A k \in Sent(p, "PUT") :
                /\ k = 3
                /\ reqs[p][1].ok
                /\ reqs[p][2].method = "GET" /\ reqs[p][2].ok
                /\ reqs[p][2].iid = reqs[p][3].iid
           /\ \A k \in Sent(p, "POST") : k = 2 /\ reqs[p][1].ok
           /\ ( \/ ~reqs[p][1].ok
                \/ Len(reqs[p]) >= 2 /\ reqs[p][2].method = "GET" /\ ~reqs[p][2].ok )
              => /\ Sent(p, "PUT") = {} /\ Sent(p, "POST") = {}
                 /\ Done(p)
                 /\ Alone(p) => tracker = startTracker[p]

\* C14 witness: an ensureIssue that had to update its match (the stored
\* description differs) ended on the failed description request.
C14_Witness ==
  \E p \in Procs :
    /\ Done(p) /\ Called(p, "ensureIssue")
    /\ Len(reqs[p]) = 2 /\ reqs[p][1].ok
    /\ reqs[p][2].method = "GET" /\ ~reqs[p][2].ok
    /\ \E i \in DOMAIN tracker :
         /\ tracker[i].iid = reqs[p][2].iid
         /\ tracker[i].description # sanitize(args[p].body)
    /\ result[p] = Res("null")

\* list[i] is the issue ensureIssue(title, reuseTitle) is about: the first
\* issue titled title, or with none so titled the first titled reuseTitle.
IsTarget(list, i, title, reuseTitle) ==
  \/ IsFirstTitled(list, i, title)
  \/ ~HasTitle(list, title) /\ IsFirstTitled(list, i, reuseTitle)

Titled(t) == {n \in DOMAIN tracker : tracker[n].title = t}

\* p and q are the two ensureIssue calls for one title, both returned, all
\* their requests answered successfully and their list responses arrays, p
\* started first on a tracker holding no issue titled title or reuseTitle.
SameTitlePair(p, q) ==
  /\ p # q
  /\ Done(p) /\ Called(p, "ensureIssue") /\ AllSucceeded(p) /\ ~Malformed(p)
  /\ Done(q) /\ Called(q, "ensureIssue") /\ AllSucceeded(q) /\ ~Malformed(q)
  /\ args[p].title = args[q].title
  /\ before[p] = {}
  /\ \A r \in {p, q} :
       /\ ~HasTitle(startTracker[p], args[r].title)
       /\ ~HasTitle(startTracker[p], args[r].reuseTitle)

\* C16: of two ensureIssue calls for the same title T on a tracker with no
\* issue titled T or reuseTitle, when both fetched their list before either
\* created (neither list holds T), both sent one POST, both returned
\* 'created' and the tracker holds two issues titled T; when the second
\* started after the first returned, the second sent no POST and the tracker
\* holds exactly one issue titled T.
C16_InterleavedDuplicates ==
  \A p \in Procs : \A q \in Procs :
    SameTitlePair(p, q) =>
      /\ ( /\ ~HasTitle(issueList[p], args[p].title)
           /\ ~HasTitle(issueList[q], args[p].title) )
         => /\ Cardinality(Sent(p, "POST")) = 1 /\ Cardinality(Sent(q, "POST")) = 1
            /\ result[p] = Res("created") /\ result[q] = Res("created")
            /\ Cardinality(Titled(args[p].title)) = 2
      /\ before[q] = {p}
         => /\ result[p] = Res("created")
            /\ Sent(q, "POST") = {}
            /\ Cardinality(Titled(args[p].title)) = 1

\* C16 witness: task 2 fetched its list while task 1's POST was pending;
\* both created, and the tracker holds two issues titled alike.
C16_Witness ==
  /\ SameTitlePair(1, 2)
  /\ 1 \notin before[2]
  /\ result[1] = Res("created") /\ result[2] = Res("created")
  /\ Cardinality(Titled(args[1].title)) = 2

\* The entries of list titled t.
TitledIn(list, t) == {i \in DOMAIN list : list[i].title = t}

\* C17: an ensureIssue whose list response was not an array works on the
\* empty list: it fetches no description and sends no PUT, its only further
\* request is the POST of title and sanitize(body), and when that succeeds it
\* returns 'created' with one more issue titled title on the tracker than at
\* its start, whether or not one was there.  The duplicates remain: the next
\* well-formed list response shows them all, and a later ensureIssue for the
\* same title leaves them all in place.
C17_MalformedListCreates ==
  \A p \in Procs :
    (Called(p, "ensureIssue") /\ ListFetched(p) /\ Malformed(p)) =>
      /\ issueList[p] = <<>>
      /\ pc[p] \in {"ensureIssue:post", "done"}
      /\ \A k \in 2..Len(reqs[p]) :
           /\ k = 2
           /\ reqs[p][k].method = "POST"
           /\ reqs[p][k].title = args[p].title
           /\ reqs[p][k].description = sanitize(args[p].body)
      /\ Done(p) => Len(reqs[p]) = 2
      /\ (Done(p) /\ AllSucceeded(p)) =>
           /\ result[p] = Res("created")
           /\ Alone(p) =>
                /\ Len(tracker) = Len(startTracker[p]) + 1
                /\ Cardinality(Titled(args[p].title))
                     = Cardinality(TitledIn(startTracker[p], args[p].title)) + 1
           /\ \A q \in Procs :
                ( /\ before[q] = {p} /\ before[p] = {}
                  /\ args[q].op \in ListingOps /\ ListFetched(q) /\ ~Malformed(q) ) =>
                  /\ Cardinality(TitledIn(issueList[q], args[p].title))
                       = Cardinality(TitledIn(startTracker[p], args[p].title)) + 1
                  /\ (Done(q) /\ Called(q, "ensureIssue") /\ args[q].title = args[p].title)
                     => Cardinality(Titled(args[p].title))
                          >= Cardinality(TitledIn(startTracker[p], args[p].title)) + 1

\* C17 witness: the tracker held an issue titled title, the malformed list
\* hid it and a second one was created; a following ensureIssue for the same
\* title got a well-formed list with both and left both.
C17_Witness ==
  \E p \in Procs : \E q \in Procs :
    /\ Done(p) /\ Called(p, "ensureIssue") /\ Malformed(p)
    /\ HasTitle(startTracker[p], args[p].title)
    /\ result[p] = Res("created")
    /\ before[q] = {p}
    /\ Done(q) /\ Called(q, "ensureIssue") /\ args[q].title = args[p].title
    /\ AllSucceeded(q) /\ ~Malformed(q)
    /\ Cardinality(TitledIn(issueList[q], args[p].title)) = 2
    /\ Cardinality(Titled(args[p].title)) = 2

\* C18: an ensureIssue that ran with no other task during or after it and
\* returned 'created' left the tracker as it found it plus one last issue
\* with title and sanitize(body); one that returned 'updated' left the issue
\* its PUT addressed with title and sanitize(body) and every other issue as
\* it was, none added.
C18_ReconcileConverges ==
  \A p \in Procs :
    (Done(p) /\ Called(p, "ensureIssue") /\ Alone(p)) =>
      /\ result[p] = Res("created") =>
           /\ Len(tracker) = Len(startTracker[p]) + 1
           /\ tracker[Len(tracker)].title = args[p].title
           /\ tracker[Len(tracker)].description = sanitize(args[p].body)
           /\ \A n \in DOMAIN startTracker[p] : tracker[n] = startTracker[p][n]
      /\ result[p] = Res("updated") =>
           /\ Len(tracker) = Len(startTracker[p])
           /\ \E k \in Sent(p, "PUT") : \E i \in DOMAIN tracker :
                /\ tracker[i].iid = reqs[p][k].iid
                /\ tracker[i].title = args[p].title
                /\ tracker[i].description = sanitize(args[p].body)
                /\ tracker[i].state = startTracker[p][i].state
                /\ \A n \in DOMAIN tracker \ {i} : tracker[n] = startTracker[p][n]

\* C18 witness: the first of three issues titled reuseTitle was renamed and
\* given the sanitized body; the two behind it are as before.
C18_Witness ==
  \E p \in Procs :
    /\ Done(p) /\ Called(p, "ensureIssue") /\ Alone(p)
    /\ result[p] = Res("updated")
    /\ Len(tracker) = 3
    /\ \A n \in 1..3 : startTracker[p][n].title = args[p].reuseTitle
    /\ tracker[1].title = args[p].title
    /\ args[p].body # sanitize(args[p].body)
    /\ tracker[1].description = sanitize(args[p].body)
    /\ tracker[2] = startTracker[p][2] /\ tracker[3] = startTracker[p][3]

\* Position of entry i among the entries of list titled t, in list order.
Rank(list, t, i) == Cardinality({j \in TitledIn(list, t) : j <= i})

\* C19: the k-th close request of an ensureIssueClosing addresses the k-th
\* issue of its fetched list with the title; when a close request fails it
\* is the last request and the call ends: the matches before it were closed
\* by successful requests and, with no other task running, are closed, the
\* failed one and every later match are in the state they had, and the
\* later matches received no request.
C19_ClosingStopsAtFailure ==
  \A p \in Procs :
    (Called(p, "ensureIssueClosing") /\ ListFetched(p)) =>
      \A k \in 2..Len(reqs[p]) :
        /\ \E i \in TitledIn(issueList[p], args[p].title) :
             /\ Rank(issueList[p], args[p].title, i) = k - 1
             /\ k \in Closes(p, issueList[p][i].iid)
        /\ ~reqs[p][k].ok =>
             /\ k = Len(reqs[p]) /\ Done(p)
             /\ \A i \in TitledIn(issueList[p], args[p].title) :
                  LET r == Rank(issueList[p], args[p].title, i)
                      n == issueList[p][i].iid
                  IN  /\ r < k - 1 =>
                           /\ \E c \in Closes(p, n) : reqs[p][c].ok
                           /\ Alone(p) => tracker[n].state = "closed"
                      /\ r > k - 1 => Closes(p, n) = {}
                      /\ (r >= k - 1 /\ Alone(p)) => tracker[n] = startTracker[p][n]

\* C19 witness: three issues with the title; the first was closed, the
\* second close request failed, the third issue was never addressed.
C19_Witness ==
  \E p \in Procs :
    /\ Done(p) /\ Called(p, "ensureIssueClosing") /\ Alone(p)
    /\ Cardinality(TitledIn(issueList[p], args[p].title)) = 3
    /\ Len(reqs[p]) = 3 /\ reqs[p][2].ok /\ ~reqs[p][3].ok
    /\ reqs[p][2].iid = 1 /\ reqs[p][3].iid = 2
    /\ tracker[1].state = "closed"
    /\ tracker[2].state = "opened" /\ tracker[3].state = "opened"

====
